---- MODULE Spec2Model ----
(***************************************************************************)
(* Model of the CloudShop AI-Ops bot (src/aiops-bot/app.py): the log query *)
(* client, the error summary aggregator, the kubectl executor, the         *)
(* self-heal workflow k8s_self_heal_orders and the rule-based chat router  *)
(* ai_chat.  One request is served from its arrival to its return (or to   *)
(* the exception that leaves the handler); the external collaborators      *)
(* (CloudWatch Logs, kubectl) answer nondeterministically.                 *)
(***************************************************************************)
EXTENDS Integers, Sequences, FiniteSets, TLC

VARIABLES
    op,         \* the endpoint that was called
    question,   \* ChatRequest.question (ai_chat only)
    args,       \* parameters of a direct endpoint call
    pc,         \* position of the handler
    intent,     \* intent chosen by ai_chat ("" before the dispatch)
    chat,       \* parameters ai_chat extracted: minutes, deployment, replicas, svc
    qry,        \* the _run_logs_query call in progress
    summary,    \* error_summary's dict under construction
    heal,       \* locals of k8s_self_heal_orders
    pending,    \* kubectl command about to be run
    events,     \* external calls made so far, in order
    outcome,    \* "none" | "returned" | "raised"
    response,   \* the value returned to the caller
    preOrdersStatus  \* history: the status the log backend gave the orders query
                     \* of the pre-check, once the pre-check has its summary

vars == <<op, question, args, pc, intent, chat, qry, summary, heal, pending,
          events, outcome, response, preOrdersStatus>>

------------------------------------------------------------------------------
(* Bounds of the model *)

MaxWords == 3

------------------------------------------------------------------------------
(* Strings: str.lower, str.strip, the `in` operator, re.search(r"(\d+)...") *)

Upper == "ABCDEFGHIJKLMNOPQRSTUVWXYZ"
Lowercase == "abcdefghijklmnopqrstuvwxyz"
Digits == "0123456789"

CharAt(s, i) == SubSeq(s, i, i)

IndexIn(c, alphabet) ==
    IF \E i \in 1..Len(alphabet) : CharAt(alphabet, i) = c
    THEN CHOOSE i \in 1..Len(alphabet) : CharAt(alphabet, i) = c
    ELSE 0

\* the lower-case letter of each upper-case letter
LowerOf ==
    [c \in {CharAt(Upper, i) : i \in 1..Len(Upper)} |-> CharAt(Lowercase, IndexIn(c, Upper))]

LowerChar(c) == IF c \in DOMAIN LowerOf THEN LowerOf[c] ELSE c

RECURSIVE LowerStr(_)
LowerStr(s) ==
    IF s = "" THEN "" ELSE LowerChar(CharAt(s, 1)) \o LowerStr(SubSeq(s, 2, Len(s)))

RECURSIVE Strip(_)
Strip(s) ==
    IF s = "" THEN ""
    ELSE IF CharAt(s, 1) = " " THEN Strip(SubSeq(s, 2, Len(s)))
    ELSE IF CharAt(s, Len(s)) = " " THEN Strip(SubSeq(s, 1, Len(s) - 1))
    ELSE s

\* kw in q
Contains(q, kw) ==
    \E i \in 1..(Len(q) - Len(kw) + 1) : SubSeq(q, i, i + Len(kw) - 1) = kw

DigitChars == {CharAt(Digits, i) : i \in 1..Len(Digits)}

IsDigit(c) == c \in DigitChars

\* int() of a string of decimal digits
RECURSIVE ParseInt(_)
ParseInt(s) ==
    IF s = "" THEN 0
    ELSE 10 * ParseInt(SubSeq(s, 1, Len(s) - 1)) + (IndexIn(CharAt(s, Len(s)), Digits) - 1)

\* variant: the last run of digits of q instead of the first
FirstDigits_LastRun(q) ==
    IF \E i \in 1..Len(q) : IsDigit(CharAt(q, i))
    THEN LET last == CHOOSE i \in 1..Len(q) :
                         /\ IsDigit(CharAt(q, i))
                         /\ \A j \in (i + 1)..Len(q) : ~IsDigit(CharAt(q, j))
             first == CHOOSE k \in 1..last :
                         /\ \A j \in k..last : IsDigit(CharAt(q, j))
                         /\ (k = 1 \/ ~IsDigit(CharAt(q, k - 1)))
         IN SubSeq(q, first, last)
    ELSE ""

\* group(1) of re.search(r"(\d+)\s*(...)?", q): the first maximal run of
\* digits of q, "" when q has no digit (the search returns None)
FirstDigits(q) ==
    IF \E i \in 1..Len(q) : IsDigit(CharAt(q, i))
    THEN LET first == CHOOSE i \in 1..Len(q) :
                         /\ IsDigit(CharAt(q, i))
                         /\ \A j \in 1..(i - 1) : ~IsDigit(CharAt(q, j))
             last == CHOOSE k \in first..Len(q) :
                         /\ \A j \in first..k : IsDigit(CharAt(q, j))
                         /\ (k = Len(q) \/ ~IsDigit(CharAt(q, k + 1)))
         IN SubSeq(q, first, last)
    ELSE ""

DefaultMinutes == 30
DefaultReplicas == 2
ChatLimit == 5
DefaultTimeout == 120

\* m = re.search(...); minutes = int(m.group(1)) if m else 30
ExtractMinutes(q) ==
    IF FirstDigits(q) = "" THEN DefaultMinutes ELSE ParseInt(FirstDigits(q))

\* variant: the lookback's default used for the replicas
ExtractReplicas_DefaultOfMinutes(q) ==
    IF FirstDigits(q) = "" THEN DefaultMinutes ELSE ParseInt(FirstDigits(q))

\* replicas_match = re.search(...); replicas = int(...) if replicas_match else 2
ExtractReplicas(q) ==
    IF FirstDigits(q) = "" THEN DefaultReplicas ELSE ParseInt(FirstDigits(q))

\* q = (req.question or "").lower().strip()
Normalize(text) == Strip(LowerStr(text))

------------------------------------------------------------------------------
(* Optional values: Python's None against an int *)

None == [some |-> FALSE, val |-> 0]
Some(n) == [some |-> TRUE, val |-> n]

------------------------------------------------------------------------------
(* The chat router's rules, in the order of the if-chain of ai_chat *)

\* the svc of branch 2: None (here "") unless one of the names is found
ServiceFromQuestion(q) ==
    IF Contains(q, "orders") THEN "orders"
    ELSE IF Contains(q, "catalog") THEN "catalog"
    ELSE IF Contains(q, "users") \/ Contains(q, "user service") THEN "users"
    ELSE ""

IsErrorSummary(q) ==
    /\ Contains(q, "error")
    /\ (Contains(q, "summary") \/ Contains(q, "overall") \/ Contains(q, "system"))

\* variant: the mention of an error is enough, with or without a service
IsServiceErrors_AnyError(q) ==
    Contains(q, "errors") \/ Contains(q, "error")

IsServiceErrors(q) ==
    /\ (Contains(q, "errors") \/ Contains(q, "error"))
    /\ ServiceFromQuestion(q) # ""

IsTopEndpoints(q) ==
    /\ Contains(q, "top")
    /\ (Contains(q, "endpoint") \/ Contains(q, "endpoints")
         \/ Contains(q, "traffic") \/ Contains(q, "requests"))

IsPodStatus(q) ==
    /\ (Contains(q, "pod") \/ Contains(q, "pods")
         \/ Contains(q, "kubernetes") \/ Contains(q, "k8s"))
    /\ (Contains(q, "status") \/ Contains(q, "health") \/ Contains(q, "ready"))

IsRestart(q) ==
    Contains(q, "restart") /\ (Contains(q, "deployment") \/ Contains(q, "service"))

IsScale(q) ==
    Contains(q, "scale") /\ (Contains(q, "deployment") \/ Contains(q, "service"))

IsRolloutStatus(q) ==
    Contains(q, "rollout status") \/ Contains(q, "deployment status")

\* variant: any mention of a restart starts the playbook
IsSelfHeal_AnyRestart(q) ==
    \/ Contains(q, "self heal")
    \/ Contains(q, "self-heal")
    \/ Contains(q, "fix orders")
    \/ Contains(q, "restart")

IsSelfHeal(q) ==
    \/ Contains(q, "self heal")
    \/ Contains(q, "self-heal")
    \/ Contains(q, "fix orders")
    \/ Contains(q, "restart orders")

\* variant: the restart and scale branches placed before the read-only ones
Route_ActionsFirst(q) ==
    IF IsRestart(q) THEN "restart_deployment"
    ELSE IF IsScale(q) THEN "scale_deployment"
    ELSE IF IsErrorSummary(q) THEN "error_summary"
    ELSE IF IsServiceErrors(q) THEN "service_errors"
    ELSE IF IsTopEndpoints(q) THEN "top_endpoints"
    ELSE IF IsPodStatus(q) THEN "pod_status"
    ELSE IF IsRolloutStatus(q) THEN "rollout_status"
    ELSE IF IsSelfHeal(q) THEN "self_heal_orders"
    ELSE "unknown"

\* variant: the self-heal branch placed before the generic restart branch
Route_SelfHealFirst(q) ==
    IF IsErrorSummary(q) THEN "error_summary"
    ELSE IF IsServiceErrors(q) THEN "service_errors"
    ELSE IF IsTopEndpoints(q) THEN "top_endpoints"
    ELSE IF IsPodStatus(q) THEN "pod_status"
    ELSE IF IsSelfHeal(q) THEN "self_heal_orders"
    ELSE IF IsRestart(q) THEN "restart_deployment"
    ELSE IF IsScale(q) THEN "scale_deployment"
    ELSE IF IsRolloutStatus(q) THEN "rollout_status"
    ELSE "unknown"

\* the branch of ai_chat that returns for the normalized text q
Route(q) ==
    IF IsErrorSummary(q) THEN "error_summary"
    ELSE IF IsServiceErrors(q) THEN "service_errors"
    ELSE IF IsTopEndpoints(q) THEN "top_endpoints"
    ELSE IF IsPodStatus(q) THEN "pod_status"
    ELSE IF IsRestart(q) THEN "restart_deployment"
    ELSE IF IsScale(q) THEN "scale_deployment"
    ELSE IF IsRolloutStatus(q) THEN "rollout_status"
    ELSE IF IsSelfHeal(q) THEN "self_heal_orders"
    ELSE "unknown"

\* variant: catalog tested before orders
GuessDeployment_CatalogFirst(q) ==
    IF Contains(q, "catalog") THEN "catalog-deployment"
    ELSE IF Contains(q, "orders") THEN "orders-deployment"
    ELSE IF Contains(q, "users") \/ Contains(q, "user service") THEN "users-deployment"
    ELSE "orders-deployment"

GuessDeployment(q) ==
    IF Contains(q, "orders") THEN "orders-deployment"
    ELSE IF Contains(q, "catalog") THEN "catalog-deployment"
    ELSE IF Contains(q, "users") \/ Contains(q, "user service") THEN "users-deployment"
    ELSE "orders-deployment"

HelpText == "I didn't quite understand that request yet."

------------------------------------------------------------------------------
(* Requests *)

Vocabulary ==
    {"error", "summary", "orders", "Catalog-Service", "users", "user", "service",
     "restart", "scale", "deployment", "status", "pods", "top3", "traffic", "45"}

RECURSIVE Join(_)
Join(ws) ==
    IF Len(ws) = 0 THEN ""
    ELSE IF Len(ws) = 1 THEN ws[1]
    ELSE ws[1] \o " " \o Join(Tail(ws))

Questions ==
    {Join(ws) : ws \in UNION {[1..n -> Vocabulary] : n \in 0..MaxWords}}

Lookbacks == {5, 30}

DefaultDeployment == "orders-deployment"
DefaultNamespace == "cloudshop"

------------------------------------------------------------------------------
(* External collaborators *)

\* what logs_client.get_query_results can answer for a query of the kind
TerminalStatuses == {"Complete", "Failed", "Cancelled"}

CountRow(n) == <<[field |-> "errors", value |-> n]>>
LogRow == <<[field |-> "@timestamp", value |-> "t1"], [field |-> "@message", value |-> "boom"]>>
HitsRow == <<[field |-> "requestURI", value |-> "/orders"], [field |-> "hits", value |-> "7"]>>

CompleteResults(kind) ==
    IF kind = "error_summary" THEN {<<>>, <<CountRow("0")>>, <<CountRow("3")>>}
    ELSE IF kind = "service_errors" THEN {<<>>, <<LogRow>>}
    ELSE {<<>>, <<HitsRow>>}

QueryResponses(kind) ==
    {[status |-> "Complete", results |-> r] : r \in CompleteResults(kind)}
        \cup {[status |-> st, results |-> <<>>] : st \in {"Failed", "Cancelled"}}

\* the answer of a query that is still executing
RunningResponse == [status |-> "Running", results |-> <<>>]

\* what one get_query_results call can answer
PollAnswers(kind) == QueryResponses(kind) \cup {RunningResponse}

\* str(e) of the exception a failing boto3 call raises
RemoteError == "EndpointConnectionError"

\* what subprocess.run(["kubectl"] + args) can do: exit with a code, or raise
KubectlOutcomes ==
    {[ran |-> TRUE, returncode |-> 0], [ran |-> TRUE, returncode |-> 1],
     [ran |-> FALSE, returncode |-> 0]}

\* kubectl get pods -o json: the parsed items, abstracted to the pods' readiness
PodLists == {<<>>, <<TRUE>>, <<TRUE, FALSE>>}

------------------------------------------------------------------------------
(* Helpers of app.py *)

\* row = {f["field"]: f["value"] for f in r}
RowDict(r) ==
    [k \in {r[i].field : i \in 1..Len(r)} |->
        r[CHOOSE i \in 1..Len(r) :
            r[i].field = k /\ \A j \in (i + 1)..Len(r) : r[j].field # k].value]

ResultsToRows(res) == [i \in 1..Len(res.results) |-> RowDict(res.results[i])]

\* int(rows[0].get("errors", 0)) if rows else 0
CountFromRows(rows) ==
    IF Len(rows) > 0
    THEN IF "errors" \in DOMAIN rows[1] THEN ParseInt(rows[1]["errors"]) ELSE 0
    ELSE 0

\* variant: a service left out of the list
Services_NoUsers == <<"catalog", "orders">>

Services == <<"catalog", "orders", "users">>

KubectlCmd(verb, deployment, namespace, extra) ==
    [verb |-> verb, deployment |-> deployment, namespace |-> namespace, extra |-> extra]

NoCmd == KubectlCmd("", "", "", 0)

\* "kubectl " + " ".join(args)
CmdLine(c) ==
    IF c.verb = "rollout restart"
    THEN "kubectl rollout restart deployment/" \o c.deployment \o " -n " \o c.namespace
    ELSE IF c.verb = "rollout status"
    THEN "kubectl rollout status deployment/" \o c.deployment \o " -n " \o c.namespace
             \o " --timeout=" \o ToString(c.extra) \o "s"
    ELSE IF c.verb = "scale"
    THEN "kubectl scale deployment/" \o c.deployment \o " --replicas=" \o ToString(c.extra)
             \o " -n " \o c.namespace
    ELSE "kubectl get pods -n " \o c.namespace \o " -o json"

\* the dict _run_kubectl returns
KubectlResult(c, out) ==
    IF out.ran
    THEN [cmd |-> CmdLine(c), returncode |-> out.returncode,
          stdout |-> IF out.returncode = 0 THEN "ok" ELSE "",
          stderr |-> IF out.returncode = 0 THEN "" ELSE "failed"]
    ELSE [cmd |-> CmdLine(c), error |-> "kubectl not found"]

------------------------------------------------------------------------------
(* The handlers, as functions of the locals s of the request in progress *)

\* locals of the query in progress; seen is the status the backend gave the
\* orders query of the error_summary call in progress ("" before it); waited
\* tells that the loop of _run_logs_query has slept at least once
NoQuery == [kind |-> "", svc |-> "", minutes |-> 0, seen |-> "", waited |-> FALSE]
NewQuery(kind, svc, minutes) ==
    [kind |-> kind, svc |-> svc, minutes |-> minutes, seen |-> "", waited |-> FALSE]

NoHeal ==
    [phase |-> "none", deployment |-> "", namespace |-> "", minutes |-> 0,
     timeout |-> 0, before |-> None, after |-> None, steps |-> <<>>, status |-> ""]

NoChat == [q |-> "", minutes |-> 0, deployment |-> "", replicas |-> 0, svc |-> ""]

Event(kind, cmd, target, namespace, arg) ==
    [kind |-> kind, cmd |-> cmd, target |-> target, namespace |-> namespace, arg |-> arg]

Log(s, ev) == [s EXCEPT !.events = Append(@, ev)]

Return(s, value) ==
    [s EXCEPT !.pc = "done", !.outcome = "returned", !.response = value]

\* an exception nothing catches leaves the handler
Raise(s, e) ==
    [s EXCEPT !.pc = "done", !.outcome = "raised", !.response = [error |-> e]]

\* error_summary(minutes): the loop starts with the first service
CallErrorSummary(s, minutes) ==
    [Log(s, Event("call", "error_summary", "", "", minutes)) EXCEPT
        !.summary = <<>>,
        !.qry = NewQuery("error_summary", Services[1], minutes),
        !.pc = "start_query"]

\* variants of the decision: the test inverted; None taken for "no errors"
NoActionNeeded_Inverted(before) == before.some /\ before.val # 0

NoActionNeeded_NoneIsZero(before) == ~before.some \/ before.val = 0

\* orders_errors_before is not None and orders_errors_before == 0
NoActionNeeded(before) == before.some /\ before.val = 0

\* variant: a failed rollout wait or post-check counts as errors still present
FinalStatus_NoneIsFailure(after) ==
    IF after.some /\ after.val = 0
    THEN "completed"
    ELSE "completed_but_errors_still_present"

\* final_status of k8s_self_heal_orders
FinalStatus(after) ==
    IF after.some /\ after.val > 0
    THEN "completed_but_errors_still_present"
    ELSE "completed"

\* the dict k8s_self_heal_orders returns
HealRecord(h) ==
    IF h.status = "no_action_needed"
    THEN [status |-> h.status,
          reason |-> "Orders service has 0 errors in the last period.",
          deployment |-> h.deployment, namespace |-> h.namespace,
          orders_errors_before |-> h.before, orders_errors_after |-> h.after,
          steps |-> h.steps]
    ELSE [status |-> h.status,
          deployment |-> h.deployment, namespace |-> h.namespace,
          orders_errors_before |-> h.before, orders_errors_after |-> h.after,
          steps |-> h.steps]

\* server.py: the dict the adapter's self_heal_orders returns
AdapterRecord(h) ==
    IF h.status = "no_action_needed"
    THEN [status |-> h.status,
          reason |-> "Orders service has 0 errors in the last period.",
          details |-> h.steps]
    ELSE [status |-> h.status,
          deployment |-> h.deployment, namespace |-> h.namespace,
          orders_errors_before |-> h.before, orders_errors_after |-> h.after,
          steps |-> h.steps]

\* the operation of the adapter (server.py) against those of the bot (app.py)
AdapterOp == "mcp.self_heal_orders"

\* k8s_self_heal_orders returns, to ai_chat (branch 8) or to the caller;
\* the adapter's self_heal_orders returns to its caller
HealReturn(s) ==
    IF op = "ai_chat"
    THEN Return(s, [intent |-> "self_heal_orders",
                    endpoint |-> "/ai/k8s/self_heal_orders",
                    answer |-> "self_heal_report",
                    data |-> HealRecord(s.heal)])
    ELSE IF op = AdapterOp THEN Return(s, AdapterRecord(s.heal))
    ELSE Return(s, HealRecord(s.heal))

\* .get("summary", {}).get("orders", 0)
OrdersCount(res) ==
    IF "orders" \in DOMAIN res.summary THEN res.summary["orders"] ELSE 0

\* server.py: pre_errors.get("orders", 0) on the JSON of GET /logs/error_summary
AdapterOrdersCount(res) ==
    IF "orders" \in DOMAIN res THEN res["orders"] ELSE 0

\* the count a check takes from the answer of error_summary
CountOf(res) == IF op = AdapterOp THEN AdapterOrdersCount(res) ELSE OrdersCount(res)

\* str(e) of the HTTPError resp.raise_for_status() raises in _get_json when
\* the bot's endpoint has raised
HttpError == "500 Server Error"

\* str(e) in the except clause of a check
CheckError(e) == IF op = AdapterOp THEN HttpError ELSE e

\* lines 400-423: the pre-check's try/except, the decision, the restart
HealPreChecked(s, ok, val) ==
    LET before == IF ok THEN Some(CountOf(val)) ELSE None
        step == IF ok THEN [key |-> "pre_error_summary", val |-> val]
                      ELSE [key |-> "pre_error_summary_error",
                            val |-> [error |-> CheckError(val)]]
        h1 == [s.heal EXCEPT !.before = before, !.steps = Append(@, step)]
    IN  IF NoActionNeeded(before)
        THEN HealReturn([s EXCEPT !.heal = [h1 EXCEPT !.after = before,
                                                      !.status = "no_action_needed",
                                                      !.phase = "end"]])
        ELSE [s EXCEPT !.heal = [h1 EXCEPT !.phase = "restart"],
                       !.pc = "kubectl",
                       !.pending = KubectlCmd("rollout restart", h1.deployment,
                                              h1.namespace, 0)]

\* variant: a failed post-check leaves no entry in steps
HealPostChecked_NoErrorStep(s, ok, val) ==
    LET after == IF ok THEN Some(CountOf(val)) ELSE None
        steps == IF ok THEN Append(s.heal.steps, [key |-> "post_error_summary", val |-> val])
                       ELSE s.heal.steps
    IN  HealReturn([s EXCEPT !.heal = [s.heal EXCEPT !.after = after,
                                                     !.steps = steps,
                                                     !.status = FinalStatus(after),
                                                     !.phase = "end"]])

\* lines 437-457: the post-check's try/except and the final status
HealPostChecked(s, ok, val) ==
    LET after == IF ok THEN Some(CountOf(val)) ELSE None
        step == IF ok THEN [key |-> "post_error_summary", val |-> val]
                      ELSE [key |-> "post_error_summary_error",
                            val |-> [error |-> CheckError(val)]]
    IN  HealReturn([s EXCEPT !.heal = [s.heal EXCEPT !.after = after,
                                                     !.steps = Append(@, step),
                                                     !.status = FinalStatus(after),
                                                     !.phase = "end"]])

\* error_summary has returned val (ok) or raised val: back in the caller
OnErrorSummary(s, ok, val) ==
    IF s.heal.phase = "pre" THEN HealPreChecked(s, ok, val)
    ELSE IF s.heal.phase = "post" THEN HealPostChecked(s, ok, val)
    ELSE IF ~ok THEN Raise(s, val)
    ELSE IF op = "ai_chat"
    THEN Return(s, [intent |-> "error_summary", minutes |-> s.chat.minutes,
                    endpoint |-> "/ai/logs/error_summary",
                    answer |-> IF DOMAIN val.summary = {} THEN "no_errors_recorded"
                                                          ELSE "error_summary_report",
                    data |-> val])
    ELSE Return(s, val)

\* a call of _run_logs_query by itself, against its calls by the endpoints
QueryOp == "_run_logs_query"

\* _run_logs_query has returned res: the rest of the function that called it
OnQueryResult(s, res) ==
    LET rows == ResultsToRows(res) IN
    IF op = QueryOp THEN Return(s, res)
    ELSE IF s.qry.kind = "error_summary"
    THEN LET svc == s.qry.svc
             idx == CHOOSE i \in 1..Len(Services) : Services[i] = svc
             sum1 == [k \in DOMAIN s.summary \cup {svc} |->
                         IF k = svc THEN CountFromRows(rows) ELSE s.summary[k]]
         IN  IF idx < Len(Services)
             THEN [s EXCEPT !.summary = sum1,
                            !.qry = [NewQuery("error_summary", Services[idx + 1], s.qry.minutes)
                                         EXCEPT !.seen = s.qry.seen],
                            !.pc = "start_query"]
             ELSE OnErrorSummary([s EXCEPT !.summary = sum1, !.qry = NoQuery], TRUE,
                                 [lookback_minutes |-> s.qry.minutes, summary |-> sum1])
    ELSE IF s.qry.kind = "service_errors"
    THEN Return([s EXCEPT !.qry = NoQuery],
                [intent |-> "service_errors", minutes |-> s.chat.minutes,
                 service |-> s.chat.svc, endpoint |-> "/ai/logs/service_errors",
                 answer |-> IF Len(rows) = 0 THEN "looks_clean" ELSE "recent_errors",
                 data |-> [lookback_minutes |-> s.qry.minutes, service |-> s.qry.svc,
                           status |-> res.status, results |-> rows]])
    ELSE LET endpoints ==
                 [i \in 1..Len(rows) |->
                     [endpoint |-> IF "requestURI" \in DOMAIN rows[i]
                                   THEN rows[i]["requestURI"] ELSE "unknown",
                      hits |-> IF "hits" \in DOMAIN rows[i]
                               THEN ParseInt(rows[i]["hits"]) ELSE 0]]
         IN  Return([s EXCEPT !.qry = NoQuery],
                    [intent |-> "top_endpoints", minutes |-> s.chat.minutes,
                     endpoint |-> "/ai/logs/top_endpoints",
                     answer |-> IF Len(endpoints) = 0 THEN "no_traffic" ELSE "top_endpoints_report",
                     data |-> [lookback_minutes |-> s.qry.minutes, endpoints |-> endpoints]])

\* the remote call raised inside _run_logs_query: only k8s_self_heal_orders
\* has a try around error_summary
OnQueryRaised(s, e) ==
    IF s.qry.kind = "error_summary"
    THEN OnErrorSummary([s EXCEPT !.qry = NoQuery, !.summary = <<>>], FALSE, e)
    ELSE Raise([s EXCEPT !.qry = NoQuery], e)

\* variant: the answer of the first poll is returned whatever its status
OnPoll_NoLoop(s, res) ==
    LET seen == IF s.qry.svc = "orders" THEN res.status ELSE s.qry.seen
        last == s.qry.svc = Services[Len(Services)]
    IN  OnQueryResult(
            [s EXCEPT !.qry.seen = IF s.heal.phase = "pre" THEN seen ELSE @,
                      !.preOrdersStatus = IF s.heal.phase = "pre" /\ last THEN seen ELSE @],
            res)

\* one turn of the while loop of _run_logs_query, get_query_results having
\* answered res: return res on a terminal status, else time.sleep(1) and loop
OnPoll(s, res) ==
    LET seen == IF s.qry.svc = "orders" THEN res.status ELSE s.qry.seen
        last == s.qry.svc = Services[Len(Services)]
    IN  IF res.status \in TerminalStatuses
        THEN OnQueryResult(
                 [s EXCEPT !.qry.seen = IF s.heal.phase = "pre" THEN seen ELSE @,
                           !.preOrdersStatus =
                               IF s.heal.phase = "pre" /\ last THEN seen ELSE @],
                 res)
        ELSE [s EXCEPT !.qry.waited = TRUE]

\* variant: the post-check is started right after the restart, without the
\* rollout status wait
OnKubectl_NoWait(s, res) ==
    IF s.heal.phase = "restart"
    THEN CallErrorSummary(
             [s EXCEPT !.heal = [s.heal EXCEPT
                                     !.steps = Append(@, [key |-> "restart", val |-> res]),
                                     !.phase = "post"],
                       !.pending = NoCmd],
             s.heal.minutes)
    ELSE Return([s EXCEPT !.pending = NoCmd],
                [intent |-> s.intent, deployment |-> s.chat.deployment,
                 endpoint |-> "/ai/k8s", answer |-> "command_report", data |-> res])

\* variant: a restart that failed or could not be invoked ends the workflow
\* with an exception
OnKubectl_AbortOnFailure(s, res) ==
    IF s.heal.phase = "restart" /\ ("error" \in DOMAIN res \/ res.returncode # 0)
    THEN Raise([s EXCEPT !.pending = NoCmd], "restart failed")
    ELSE IF s.heal.phase = "restart"
    THEN [s EXCEPT !.heal = [s.heal EXCEPT !.steps = Append(@, [key |-> "restart", val |-> res]),
                                           !.phase = "rollout"],
                   !.pending = KubectlCmd("rollout status", s.heal.deployment,
                                          s.heal.namespace, s.heal.timeout)]
    ELSE IF s.heal.phase = "rollout"
    THEN CallErrorSummary(
             [s EXCEPT !.heal = [s.heal EXCEPT
                                     !.steps = Append(@, [key |-> "rollout_status", val |-> res]),
                                     !.phase = "post"],
                       !.pending = NoCmd],
             s.heal.minutes)
    ELSE Return([s EXCEPT !.pending = NoCmd],
                [intent |-> s.intent, deployment |-> s.chat.deployment,
                 endpoint |-> "/ai/k8s", answer |-> "command_report", data |-> res])

\* _run_kubectl has returned res
OnKubectl(s, res) ==
    IF s.heal.phase = "restart"
    THEN [s EXCEPT !.heal = [s.heal EXCEPT !.steps = Append(@, [key |-> "restart", val |-> res]),
                                           !.phase = "rollout"],
                   !.pending = KubectlCmd("rollout status", s.heal.deployment,
                                          s.heal.namespace, s.heal.timeout)]
    ELSE IF s.heal.phase = "rollout"
    THEN CallErrorSummary(
             [s EXCEPT !.heal = [s.heal EXCEPT
                                     !.steps = Append(@, [key |-> "rollout_status", val |-> res]),
                                     !.phase = "post"],
                       !.pending = NoCmd],
             s.heal.minutes)
    ELSE IF s.intent = "scale_deployment"
    THEN Return([s EXCEPT !.pending = NoCmd],
                [intent |-> s.intent, deployment |-> s.chat.deployment,
                 replicas |-> s.chat.replicas, endpoint |-> "/ai/k8s/scale_deployment",
                 answer |-> "command_report", data |-> res])
    ELSE Return([s EXCEPT !.pending = NoCmd],
                [intent |-> s.intent, deployment |-> s.chat.deployment,
                 endpoint |-> IF s.intent = "restart_deployment"
                              THEN "/ai/k8s/restart_deployment"
                              ELSE "/ai/k8s/rollout_status",
                 answer |-> "command_report", data |-> res])

\* variant: called from the chat, the workflow looks back the minutes of the text
StartHeal_TextLookback(s, deployment, namespace, minutes, timeout) ==
    LET m == IF op = "ai_chat" THEN s.chat.minutes ELSE minutes IN
    CallErrorSummary(
        [s EXCEPT !.heal = [NoHeal EXCEPT !.phase = "pre", !.deployment = deployment,
                                          !.namespace = namespace, !.minutes = m,
                                          !.timeout = timeout]],
        m)

\* k8s_self_heal_orders(deployment, namespace, minutes, timeout_seconds)
StartHeal(s, deployment, namespace, minutes, timeout) ==
    CallErrorSummary(
        [s EXCEPT !.heal = [NoHeal EXCEPT !.phase = "pre", !.deployment = deployment,
                                          !.namespace = namespace, !.minutes = minutes,
                                          !.timeout = timeout]],
        minutes)

\* ai_chat up to the first external call of the branch taken
Dispatch(s, text) ==
    LET q == Normalize(text)
        minutes == ExtractMinutes(q)
        r == Route(q)
        s0 == [s EXCEPT !.intent = r, !.chat = [NoChat EXCEPT !.q = q, !.minutes = minutes]]
    IN  IF r = "error_summary" THEN CallErrorSummary(s0, minutes)
        ELSE IF r = "service_errors"
        THEN [Log(s0, Event("call", "service_errors", ServiceFromQuestion(q), "", minutes))
                 EXCEPT !.chat.svc = ServiceFromQuestion(q),
                        !.qry = NewQuery("service_errors", ServiceFromQuestion(q), minutes),
                        !.pc = "start_query"]
        ELSE IF r = "top_endpoints"
        THEN [Log(s0, Event("call", "top_endpoints", "", "", minutes))
                 EXCEPT !.qry = NewQuery("top_endpoints", "", minutes), !.pc = "start_query"]
        ELSE IF r = "pod_status"
        THEN [s0 EXCEPT !.pending = KubectlCmd("get pods", "", "cloudshop", 0),
                        !.pc = "get_pods"]
        ELSE IF r = "restart_deployment"
        THEN [s0 EXCEPT !.chat.deployment = GuessDeployment(q),
                        !.pending = KubectlCmd("rollout restart", GuessDeployment(q),
                                               "cloudshop", 0),
                        !.pc = "kubectl"]
        ELSE IF r = "scale_deployment"
        THEN [s0 EXCEPT !.chat.deployment = GuessDeployment(q),
                        !.chat.replicas = ExtractReplicas(q),
                        !.pending = KubectlCmd("scale", GuessDeployment(q), "cloudshop",
                                               ExtractReplicas(q)),
                        !.pc = "kubectl"]
        ELSE IF r = "rollout_status"
        THEN [s0 EXCEPT !.chat.deployment = GuessDeployment(q),
                        !.pending = KubectlCmd("rollout status", GuessDeployment(q),
                                               "cloudshop", 120),
                        !.pc = "kubectl"]
        ELSE IF r = "self_heal_orders"
        THEN StartHeal(s0, DefaultDeployment, DefaultNamespace, DefaultMinutes, DefaultTimeout)
        ELSE Return(s0, [intent |-> "unknown", answer |-> HelpText, data |-> <<>>])

------------------------------------------------------------------------------
(* The state machine *)

Cur ==
    [pc |-> pc, intent |-> intent, chat |-> chat, qry |-> qry, summary |-> summary,
     heal |-> heal, pending |-> pending, events |-> events, outcome |-> outcome,
     response |-> response, preOrdersStatus |-> preOrdersStatus]

Install(n) ==
    /\ pc' = n.pc
    /\ intent' = n.intent
    /\ chat' = n.chat
    /\ qry' = n.qry
    /\ summary' = n.summary
    /\ heal' = n.heal
    /\ pending' = n.pending
    /\ events' = n.events
    /\ outcome' = n.outcome
    /\ response' = n.response
    /\ preOrdersStatus' = n.preOrdersStatus
    /\ UNCHANGED <<op, question, args>>

HealArgs ==
    {[deployment |-> DefaultDeployment, namespace |-> DefaultNamespace,
      minutes |-> m, timeout |-> DefaultTimeout] : m \in Lookbacks}

NoArgs == [deployment |-> "", namespace |-> "", minutes |-> 0, timeout |-> 0]

Init ==
    /\ \/ /\ op = "ai_chat"
          /\ question \in Questions
          /\ args = NoArgs
       \/ /\ op = "k8s_self_heal_orders"
          /\ question = ""
          /\ args \in HealArgs
       \/ /\ op = "error_summary"
          /\ question = ""
          /\ args \in {[NoArgs EXCEPT !.minutes = m] : m \in Lookbacks}
    /\ pc = "start"
    /\ intent = ""
    /\ chat = NoChat
    /\ qry = NoQuery
    /\ summary = <<>>
    /\ heal = NoHeal
    /\ pending = NoCmd
    /\ events = <<>>
    /\ outcome = "none"
    /\ response = <<>>
    /\ preOrdersStatus = ""

\* POST /ai/chat
AiChat ==
    /\ pc = "start"
    /\ op = "ai_chat"
    /\ Install(Dispatch(Cur, question))

\* POST /k8s/self_heal_orders
K8sSelfHealOrders ==
    /\ pc = "start"
    /\ op = "k8s_self_heal_orders"
    /\ Install(StartHeal(Cur, args.deployment, args.namespace, args.minutes, args.timeout))

\* GET /logs/error_summary
ErrorSummary ==
    /\ pc = "start"
    /\ op = "error_summary"
    /\ Install(CallErrorSummary(Cur, args.minutes))

\* _run_logs_query, logs_client.start_query: it answers with a queryId or raises
StartQuery ==
    /\ pc = "start_query"
    /\ \E ok \in BOOLEAN :
          Install(IF ok THEN [Cur EXCEPT !.pc = "poll"]
                        ELSE OnQueryRaised(Cur, RemoteError))

\* _run_logs_query, one turn of the while loop: get_query_results raises,
\* answers Running (time.sleep(1) and the loop polls again) or answers a
\* terminal status
GetQueryResults ==
    /\ pc = "poll"
    /\ \/ Install(OnQueryRaised(Cur, RemoteError))
       \/ \E res \in PollAnswers(qry.kind) : Install(OnPoll(Cur, res))

\* _run_kubectl
RunKubectl ==
    /\ pc = "kubectl"
    /\ \E out \in KubectlOutcomes :
          Install(OnKubectl(Log(Cur, Event("kubectl", pending.verb, pending.deployment,
                                           pending.namespace, pending.extra)),
                            KubectlResult(pending, out)))

\* k8s_pod_status and the rest of branch 4 of ai_chat
PodStatus ==
    /\ pc = "get_pods"
    /\ \E out \in KubectlOutcomes, pods \in PodLists :
          /\ (~out.ran \/ out.returncode # 0) => pods = <<>>
          /\ LET res == IF out.ran
                        THEN [cmd |-> CmdLine(pending), returncode |-> out.returncode,
                              stdout_json |-> pods,
                              stderr |-> IF out.returncode = 0 THEN "" ELSE "failed"]
                        ELSE [cmd |-> CmdLine(pending), error |-> "kubectl not found"]
                 items == IF out.ran THEN pods ELSE <<>>
                 not_ready == {i \in 1..Len(items) : ~items[i]}
                 s1 == Log(Cur, Event("kubectl", pending.verb, pending.deployment,
                                      pending.namespace, pending.extra))
             IN  Install(Return([s1 EXCEPT !.pending = NoCmd],
                                [intent |-> "pod_status", endpoint |-> "/ai/k8s/pod_status",
                                 answer |-> IF not_ready # {} THEN "pods_not_ready"
                                                              ELSE "all_pods_ready",
                                 data |-> res]))

Next ==
    \/ AiChat
    \/ K8sSelfHealOrders
    \/ ErrorSummary
    \/ StartQuery
    \/ GetQueryResults
    \/ RunKubectl
    \/ PodStatus

Spec == Init /\ [][Next]_vars

------------------------------------------------------------------------------
(* _run_logs_query by itself *)

\* the queries the endpoints hand to _run_logs_query
Queries ==
    {NewQuery("error_summary", Services[i], m) : i \in 1..Len(Services), m \in Lookbacks}
        \cup {NewQuery("service_errors", Services[i], m) :
                  i \in 1..Len(Services), m \in Lookbacks}
        \cup {NewQuery("top_endpoints", "", m) : m \in Lookbacks}

\* _run_logs_query(query, minutes) entered, before start_query
QueryInit ==
    /\ op = QueryOp
    /\ question = ""
    /\ args = NoArgs
    /\ pc = "start_query"
    /\ intent = ""
    /\ chat = NoChat
    /\ qry \in Queries
    /\ summary = <<>>
    /\ heal = NoHeal
    /\ pending = NoCmd
    /\ events = <<>>
    /\ outcome = "none"
    /\ response = <<>>
    /\ preOrdersStatus = ""

QueryNext ==
    \/ StartQuery
    \/ GetQueryResults

QuerySpec == QueryInit /\ [][QueryNext]_vars

\* get_query_results answers with a terminal status
TerminalAnswer ==
    /\ pc = "poll"
    /\ \E res \in QueryResponses(qry.kind) : Install(OnPoll(Cur, res))

\* get_query_results answers Running
RunningAnswer ==
    /\ pc = "poll"
    /\ Install(OnPoll(Cur, RunningResponse))

\* the calls to the backend return, and the backend ends the query at last
QueryLive == QuerySpec /\ WF_vars(StartQuery) /\ WF_vars(TerminalAnswer)

------------------------------------------------------------------------------
(* The adapter's self_heal_orders beside the bot's k8s_self_heal_orders *)

AdapterInit ==
    /\ op \in {"k8s_self_heal_orders", AdapterOp}
    /\ question = ""
    /\ args \in HealArgs
    /\ pc = "start"
    /\ intent = ""
    /\ chat = NoChat
    /\ qry = NoQuery
    /\ summary = <<>>
    /\ heal = NoHeal
    /\ pending = NoCmd
    /\ events = <<>>
    /\ outcome = "none"
    /\ response = <<>>
    /\ preOrdersStatus = ""

\* the tool self_heal_orders of the adapter; its _get_json reaches the bot's
\* GET /logs/error_summary and its _run_kubectl is that of the bot
SelfHealOrders ==
    /\ pc = "start"
    /\ op = AdapterOp
    /\ Install(StartHeal(Cur, args.deployment, args.namespace, args.minutes, args.timeout))

AdapterNext ==
    \/ K8sSelfHealOrders
    \/ SelfHealOrders
    \/ StartQuery
    \/ GetQueryResults
    \/ RunKubectl

AdapterSpec == AdapterInit /\ [][AdapterNext]_vars

------------------------------------------------------------------------------
(* Two invocations of k8s_self_heal_orders at the same time.  The endpoint is
   a plain def, which FastAPI runs in a thread of its pool for each request;
   the function takes no lock.  Each of pc, qry, summary, heal, pending,
   outcome and response holds the locals of both invocations, by worker; the
   calls that reach the log backend and the cluster are in events in the
   order they are made. *)

Workers == {1, 2}

\* the backend as the two invocations meet it: the queries complete, at once
\* or after a wait, and count no error or three; kubectl runs and succeeds
BusyAnswers ==
    {RunningResponse,
     [status |-> "Complete", results |-> <<CountRow("0")>>],
     [status |-> "Complete", results |-> <<CountRow("3")>>]}

KubectlDone == [ran |-> TRUE, returncode |-> 0]

CurOf(w) ==
    [pc |-> pc[w], intent |-> intent, chat |-> chat, qry |-> qry[w],
     summary |-> summary[w], heal |-> heal[w], pending |-> pending[w],
     events |-> events, outcome |-> outcome[w], response |-> response[w],
     preOrdersStatus |-> preOrdersStatus]

InstallAt(w, n) ==
    /\ pc' = [pc EXCEPT ![w] = n.pc]
    /\ qry' = [qry EXCEPT ![w] = n.qry]
    /\ summary' = [summary EXCEPT ![w] = n.summary]
    /\ heal' = [heal EXCEPT ![w] = n.heal]
    /\ pending' = [pending EXCEPT ![w] = n.pending]
    /\ outcome' = [outcome EXCEPT ![w] = n.outcome]
    /\ response' = [response EXCEPT ![w] = n.response]
    /\ events' = n.events
    /\ preOrdersStatus' = n.preOrdersStatus
    /\ UNCHANGED <<op, question, args, intent, chat>>

\* two requests POST /k8s/self_heal_orders for the same deployment and
\* namespace have arrived
ConcurrentInit ==
    /\ op = "k8s_self_heal_orders"
    /\ question = ""
    /\ args \in HealArgs
    /\ pc = [w \in Workers |-> "start"]
    /\ intent = ""
    /\ chat = NoChat
    /\ qry = [w \in Workers |-> NoQuery]
    /\ summary = [w \in Workers |-> <<>>]
    /\ heal = [w \in Workers |-> NoHeal]
    /\ pending = [w \in Workers |-> NoCmd]
    /\ events = <<>>
    /\ outcome = [w \in Workers |-> "none"]
    /\ response = [w \in Workers |-> <<>>]
    /\ preOrdersStatus = ""

WorkerSelfHeal(w) ==
    /\ pc[w] = "start"
    /\ InstallAt(w, StartHeal(CurOf(w), args.deployment, args.namespace, args.minutes,
                              args.timeout))

WorkerStartQuery(w) ==
    /\ pc[w] = "start_query"
    /\ InstallAt(w, [CurOf(w) EXCEPT !.pc = "poll"])

WorkerGetQueryResults(w) ==
    /\ pc[w] = "poll"
    /\ \E res \in BusyAnswers : InstallAt(w, OnPoll(CurOf(w), res))

WorkerRunKubectl(w) ==
    /\ pc[w] = "kubectl"
    /\ InstallAt(w, OnKubectl(Log(CurOf(w), Event("kubectl", pending[w].verb,
                                                   pending[w].deployment,
                                                   pending[w].namespace, pending[w].extra)),
                              KubectlResult(pending[w], KubectlDone)))

ConcurrentNext ==
    \E w \in Workers :
        \/ WorkerSelfHeal(w)
        \/ WorkerStartQuery(w)
        \/ WorkerGetQueryResults(w)
        \/ WorkerRunKubectl(w)

ConcurrentSpec == ConcurrentInit /\ [][ConcurrentNext]_vars

------------------------------------------------------------------------------
(* Observations used by the properties *)

Cmds(evs) == [i \in 1..Len(evs) |-> evs[i].cmd]

KubectlEvents == SelectSeq(events, LAMBDA e : e.kind = "kubectl")

ErrorSummaryCalls == SelectSeq(events, LAMBDA e : e.cmd = "error_summary")

\* the record k8s_self_heal_orders returned (through ai_chat: its data)
HealResult == IF op = "ai_chat" THEN response.data ELSE response

HealReturned == heal.phase = "end" /\ pc = "done" /\ outcome = "returned"

\* the pre-check is over: orders_errors_before has its value
PreCheckDone == heal.phase \in {"restart", "rollout", "post", "end"}

FullPathCmds == <<"error_summary", "rollout restart", "rollout status", "error_summary">>

------------------------------------------------------------------------------
(* Self-heal workflow *)

\* C1: when the pre-check succeeds and reports 0 errors for orders, the
\* invocation returns no_action_needed, has run no kubectl command, has called
\* error_summary once only, and orders_errors_after = orders_errors_before = 0.
C1_ZeroErrorsNoAction ==
    (PreCheckDone /\ heal.before = Some(0)) =>
        /\ HealReturned
        /\ HealResult.status = "no_action_needed"
        /\ Len(KubectlEvents) = 0
        /\ Len(ErrorSummaryCalls) = 1
        /\ HealResult.orders_errors_before = Some(0)
        /\ HealResult.orders_errors_after = HealResult.orders_errors_before

C1_Witness ==
    /\ HealReturned
    /\ heal.before = Some(0)
    /\ heal.steps[1].key = "pre_error_summary"
    /\ heal.steps[1].val.summary["orders"] = 0

\* C2: when orders_errors_before is not 0 (positive or None) the external
\* calls are, in this order and each once: the pre-check, one rollout restart,
\* one rollout status --timeout, the post-check; every state of the workflow
\* has made a prefix of that sequence, and the finished one all of it.
C2_RestartThenWaitOnce ==
    (PreCheckDone /\ heal.before # Some(0)) =>
        /\ Len(events) <= Len(FullPathCmds)
        /\ Cmds(events) = SubSeq(FullPathCmds, 1, Len(events))
        /\ Len(events) = (CASE heal.phase = "restart" -> 1
                            [] heal.phase = "rollout" -> 2
                            [] OTHER -> 4)
        /\ \A i \in 1..Len(events) :
              events[i].kind = "kubectl" =>
                  /\ events[i].target = heal.deployment
                  /\ events[i].namespace = heal.namespace
        /\ Len(events) >= 3 => events[3].arg = heal.timeout

C2_Witness ==
    /\ HealReturned
    /\ heal.before = Some(3)
    /\ Cmds(events) = FullPathCmds

\* C3: on the restart path the returned status is "completed" exactly when the
\* post-check count is 0 or the post-check failed (None), and
\* "completed_but_errors_still_present" exactly when the count is positive,
\* whatever the two kubectl commands did.
C3_StatusFromPostCheckOnly ==
    (HealReturned /\ Len(heal.steps) > 1) =>
        LET r == HealResult
            post == r.steps[Len(r.steps)]
            after == r.orders_errors_after
        IN  /\ r.status \in {"completed", "completed_but_errors_still_present"}
            /\ after.some <=> post.key = "post_error_summary"
            /\ after.some => after.val = post.val.summary["orders"]
            /\ r.status = "completed" <=> (~after.some \/ after.val = 0)
            /\ r.status = "completed_but_errors_still_present" <=> (after.some /\ after.val > 0)

\* a run whose restart could not be invoked and whose rollout wait failed,
\* and which still reports completed because the post-check was unavailable
C3_Witness ==
    /\ HealReturned
    /\ Len(heal.steps) = 4
    /\ "error" \in DOMAIN heal.steps[2].val
    /\ "returncode" \in DOMAIN heal.steps[3].val
    /\ heal.steps[3].val.returncode = 1
    /\ heal.after = None
    /\ HealResult.status = "completed"

\* C4: no_action_needed is returned only with orders_errors_before = 0; when
\* the pre-check raises, orders_errors_before is None, the reason is in the
\* steps, and the workflow goes on to restart, rollout status and post-check.
C4_NoActionOnlyOnZero ==
    /\ heal.status = "no_action_needed" => heal.before = Some(0)
    /\ (HealReturned /\ HealResult.status = "no_action_needed") =>
           HealResult.orders_errors_before = Some(0)
    /\ (PreCheckDone /\ heal.steps[1].key = "pre_error_summary_error") =>
           /\ heal.before = None
           /\ heal.steps[1].val.error = RemoteError
           /\ heal.status # "no_action_needed"
           /\ Cmds(events) = SubSeq(FullPathCmds, 1, Len(events))
           /\ heal.phase = "end" => Cmds(events) = FullPathCmds

C4_Witness ==
    /\ HealReturned
    /\ heal.steps[1].key = "pre_error_summary_error"
    /\ heal.before = None
    /\ Cmds(events) = FullPathCmds

\* C5: a pre-check whose orders query the backend ended Failed or Cancelled
\* records orders_errors_before as None, never as 0, and so never returns
\* no_action_needed.
C5_FailedQueryIsNoEvidence ==
    (PreCheckDone /\ preOrdersStatus \in {"Failed", "Cancelled"}) =>
        /\ heal.before = None
        /\ heal.status # "no_action_needed"

------------------------------------------------------------------------------
(* Error summary *)

\* the values error_summary has returned in this request: to the caller of
\* the endpoint, to ai_chat, or to the two checks of the self-heal workflow
ReturnedSummaries ==
    (IF op = "error_summary" /\ outcome = "returned" THEN {response} ELSE {})
    \cup (IF op = "ai_chat" /\ intent = "error_summary" /\ outcome = "returned"
          THEN {response.data} ELSE {})
    \cup {heal.steps[i].val : i \in {j \in 1..Len(heal.steps) :
                heal.steps[j].key \in {"pre_error_summary", "post_error_summary"}}}

\* C6: whenever error_summary returns, its summary has exactly the keys
\* catalog, orders and users, and every value is a non-negative integer.
C6_SummaryShape ==
    \A r \in ReturnedSummaries :
        /\ DOMAIN r.summary = {"catalog", "orders", "users"}
        /\ \A k \in DOMAIN r.summary : r.summary[k] \in Nat
        /\ op = "error_summary" => r.lookback_minutes = args.minutes

\* a summary returned although the orders query ended Failed
C6_Witness ==
    /\ preOrdersStatus = "Failed"
    /\ \E r \in ReturnedSummaries : r.summary["users"] = 3 /\ r.summary["orders"] = 0

------------------------------------------------------------------------------
(* Chat router *)

\* C7: ai_chat never ends with an exception: a failure of the log backend
\* is returned as data.
C7_ChatNeverRaises ==
    op = "ai_chat" => outcome # "raised"

\* The routing rules as section 4.4 of the specification words them; rule 2
\* asks for one of the names orders, catalog, users.
SpecKnownService(q) ==
    Contains(q, "orders") \/ Contains(q, "catalog") \/ Contains(q, "users")

SpecPredicate(i, q) ==
    CASE i = 1 -> Contains(q, "error")
                    /\ (Contains(q, "summary") \/ Contains(q, "overall") \/ Contains(q, "system"))
      [] i = 2 -> Contains(q, "error") /\ SpecKnownService(q)
      [] i = 3 -> Contains(q, "top")
                    /\ (Contains(q, "endpoint") \/ Contains(q, "endpoints")
                         \/ Contains(q, "traffic") \/ Contains(q, "requests"))
      [] i = 4 -> (Contains(q, "pod") \/ Contains(q, "pods")
                     \/ Contains(q, "kubernetes") \/ Contains(q, "k8s"))
                    /\ (Contains(q, "status") \/ Contains(q, "health") \/ Contains(q, "ready"))
      [] i = 5 -> Contains(q, "restart") /\ (Contains(q, "deployment") \/ Contains(q, "service"))
      [] i = 6 -> Contains(q, "scale") /\ (Contains(q, "deployment") \/ Contains(q, "service"))
      [] i = 7 -> Contains(q, "rollout status") \/ Contains(q, "deployment status")
      [] i = 8 -> Contains(q, "self heal") \/ Contains(q, "self-heal")
                    \/ Contains(q, "fix orders") \/ Contains(q, "restart orders")

\* rule 2 with the phrase "user service" accepted as a name of users
AmendedPredicate(i, q) ==
    IF i = 2
    THEN Contains(q, "error") /\ (SpecKnownService(q) \/ Contains(q, "user service"))
    ELSE SpecPredicate(i, q)

RuleIntents ==
    <<"error_summary", "service_errors", "top_endpoints", "pod_status",
      "restart_deployment", "scale_deployment", "rollout_status", "self_heal_orders",
      "unknown">>

\* the lowest-numbered rule from i on that q satisfies, 9 (none matched)
\* when there is none
RECURSIVE SpecLowestFrom(_, _)
SpecLowestFrom(i, q) ==
    IF i > 8 THEN 9 ELSE IF SpecPredicate(i, q) THEN i ELSE SpecLowestFrom(i + 1, q)

RECURSIVE AmendedLowestFrom(_, _)
AmendedLowestFrom(i, q) ==
    IF i > 8 THEN 9 ELSE IF AmendedPredicate(i, q) THEN i ELSE AmendedLowestFrom(i + 1, q)

SpecSatisfied(q) == {i \in 1..8 : SpecPredicate(i, q)}
AmendedSatisfied(q) == {i \in 1..8 : AmendedPredicate(i, q)}

\* the operations that belong to an intent
OpsOfIntent(i) ==
    CASE i = "error_summary" -> {"error_summary"}
      [] i = "service_errors" -> {"service_errors"}
      [] i = "top_endpoints" -> {"top_endpoints"}
      [] i = "pod_status" -> {"get pods"}
      [] i = "restart_deployment" -> {"rollout restart"}
      [] i = "scale_deployment" -> {"scale"}
      [] i = "rollout_status" -> {"rollout status"}
      [] i = "self_heal_orders" -> {"error_summary", "rollout restart", "rollout status"}
      [] OTHER -> {}

Dispatched == op = "ai_chat" /\ pc # "start"

\* an ai_chat request that the next step dispatches
ChatArrived == op = "ai_chat" /\ pc = "start"

\* the request invokes operations of its intent only, and returns that intent
OnlyOpsOfIntent ==
    Dispatched =>
        /\ \A i \in 1..Len(events) : events[i].cmd \in OpsOfIntent(intent)
        /\ outcome = "returned" => response.intent = intent

\* C8 as stated: the intent is that of the lowest-numbered rule of section
\* 4.4 the text satisfies, and only operations of that intent are invoked.
C8_FirstSpecRuleWins ==
    /\ [][ChatArrived =>
            /\ chat'.q = Normalize(question)
            /\ intent' = RuleIntents[SpecLowestFrom(1, chat'.q)]]_vars
    /\ []OnlyOpsOfIntent

\* C8 amended: the same, rule 2 also taking "user service" for a service name.
C8_FirstRuleWins ==
    /\ [][ChatArrived =>
            /\ chat'.q = Normalize(question)
            /\ intent' = RuleIntents[AmendedLowestFrom(1, chat'.q)]]_vars
    /\ []OnlyOpsOfIntent

\* "restart orders service" satisfies rules 5 and 8 and is answered by rule 5
C8_Witness ==
    /\ Dispatched
    /\ outcome = "returned"
    /\ chat.q = "restart orders service"
    /\ AmendedSatisfied(chat.q) = {5, 8}
    /\ intent = "restart_deployment"
    /\ Cmds(events) = <<"rollout restart">>

IsTargetedIntent == intent \in {"restart_deployment", "scale_deployment", "rollout_status"}

\* the deployment the command of the request is, or was, directed at
CommandTargets ==
    {chat.deployment}
        \cup (IF pc = "kubectl" THEN {pending.deployment} ELSE {})
        \cup {KubectlEvents[i].target : i \in 1..Len(KubectlEvents)}

SpecTarget(q) ==
    IF Contains(q, "orders") THEN "orders-deployment"
    ELSE IF Contains(q, "catalog") THEN "catalog-deployment"
    ELSE IF Contains(q, "users") THEN "users-deployment"
    ELSE "orders-deployment"

AmendedTarget(q) ==
    IF Contains(q, "orders") THEN "orders-deployment"
    ELSE IF Contains(q, "catalog") THEN "catalog-deployment"
    ELSE IF Contains(q, "users") \/ Contains(q, "user service") THEN "users-deployment"
    ELSE "orders-deployment"

\* C9 as stated: a restart, scale or rollout-status request is directed at
\* orders-deployment when its text has none of orders, catalog, users, and
\* otherwise at the first of orders, catalog, users it has.
C9_TargetByThreeNames ==
    (Dispatched /\ IsTargetedIntent) => CommandTargets = {SpecTarget(chat.q)}

\* C9 amended: "user service" also names users-deployment, after orders and
\* catalog; orders-deployment is the target when none of the four is present.
C9_TargetGuess ==
    (Dispatched /\ IsTargetedIntent) => CommandTargets = {AmendedTarget(chat.q)}

\* a restart request that names no service, run against orders-deployment
C9_Witness ==
    /\ Dispatched
    /\ pc = "done"
    /\ intent = "restart_deployment"
    /\ ~SpecKnownService(chat.q)
    /\ ~Contains(chat.q, "user service")
    /\ Cmds(events) = <<"rollout restart">>
    /\ events[1].target = "orders-deployment"

FallbackAnswer ==
    /\ pc = "done"
    /\ outcome = "returned"
    /\ intent = "unknown"
    /\ response.intent = "unknown"
    /\ response.answer = HelpText
    /\ DOMAIN response.data = {}
    /\ events = <<>>

------------------------------------------------------------------------------
(* Numbers taken from the text *)

\* s from its first decimal digit on, "" when it has none
RECURSIVE FromFirstDigit(_)
FromFirstDigit(s) ==
    IF s = "" THEN ""
    ELSE IF CharAt(s, 1) \in DigitChars THEN s
    ELSE FromFirstDigit(SubSeq(s, 2, Len(s)))

\* the number written by the digits s starts with, read left to right
RECURSIVE LeadingNumber(_, _)
LeadingNumber(s, acc) ==
    IF s = "" \/ CharAt(s, 1) \notin DigitChars THEN acc
    ELSE LeadingNumber(SubSeq(s, 2, Len(s)),
                       10 * acc + (CHOOSE d \in 0..9 : CharAt(Digits, d + 1) = CharAt(s, 1)))

\* the value of the first run of decimal digits of q, dflt when q has no digit
FirstInteger(q, dflt) ==
    IF FromFirstDigit(q) = "" THEN dflt ELSE LeadingNumber(FromFirstDigit(q), 0)

IsLogIntent == intent \in {"error_summary", "service_errors", "top_endpoints"}

\* the lookback of the request is the one every part of it works with
LookbackKept ==
    (Dispatched /\ IsLogIntent) =>
        /\ Len(events) = 1
        /\ events[1].cmd = intent
        /\ events[1].arg = chat.minutes
        /\ qry.kind # "" => qry.minutes = chat.minutes
        /\ outcome = "returned" =>
               /\ response.minutes = chat.minutes
               /\ response.data.lookback_minutes = chat.minutes

\* C11: the lookback the router uses is the value of the first run of decimal
\* digits of the lowercased text, with or without a unit word after it, and 30
\* when the text has no digit; error_summary, service_errors and top_endpoints
\* are called with that value.
C11_LookbackFirstInteger ==
    /\ [][ChatArrived =>
            /\ chat'.q = Normalize(question)
            /\ chat'.minutes = FirstInteger(chat'.q, 30)]_vars
    /\ []LookbackKept

\* "top3 traffic 45": the lookback is 3, the first number, not the 45
C11_Witness ==
    /\ Dispatched
    /\ chat.q = "top3 traffic 45"
    /\ intent = "top_endpoints"
    /\ outcome = "returned"
    /\ events[1].arg = 3
    /\ response.data.lookback_minutes = 3

\* the scale command of the request is the one for its deployment and replicas
ScaleCommandKept ==
    (Dispatched /\ intent = "scale_deployment") =>
        /\ pc \in {"kubectl", "done"}
        /\ pc = "kubectl" =>
               /\ events = <<>>
               /\ pending = KubectlCmd("scale", chat.deployment, "cloudshop", chat.replicas)
        /\ pc = "done" =>
               /\ outcome = "returned"
               /\ events = <<Event("kubectl", "scale", chat.deployment, "cloudshop",
                                   chat.replicas)>>
               /\ response.replicas = chat.replicas
               /\ response.deployment = chat.deployment
               /\ response.data.cmd =
                      "kubectl scale deployment/" \o chat.deployment \o " --replicas="
                          \o ToString(chat.replicas) \o " -n cloudshop"

\* C12: a text routed to scale_deployment is executed with the first integer
\* of the text as the replica count, 2 when the text has no digit, by one
\* kubectl scale --replicas=<that count> on the guessed deployment in
\* namespace cloudshop.
C12_ReplicasFirstInteger ==
    /\ [][(ChatArrived /\ intent' = "scale_deployment") =>
            /\ chat'.q = Normalize(question)
            /\ chat'.replicas = FirstInteger(chat'.q, 2)
            /\ chat'.deployment = AmendedTarget(chat'.q)]_vars
    /\ []ScaleCommandKept

\* "scale service": no digit, two replicas of orders-deployment
C12_Witness ==
    /\ Dispatched
    /\ chat.q = "scale service"
    /\ intent = "scale_deployment"
    /\ pc = "done"
    /\ events[1].arg = 2
    /\ response.data.cmd = "kubectl scale deployment/orders-deployment --replicas=2 -n cloudshop"

------------------------------------------------------------------------------
(* The adapter *)

\* what k8s_self_heal_orders makes of the evidence the finished invocation
\* has in its steps: the counts and the status
BotBefore ==
    IF heal.steps[1].key = "pre_error_summary"
    THEN Some(OrdersCount(heal.steps[1].val)) ELSE None

BotAfter ==
    IF NoActionNeeded(BotBefore) THEN BotBefore
    ELSE IF heal.steps[Len(heal.steps)].key = "post_error_summary"
    THEN Some(OrdersCount(heal.steps[Len(heal.steps)].val)) ELSE None

BotStatus ==
    IF NoActionNeeded(BotBefore) THEN "no_action_needed" ELSE FinalStatus(BotAfter)

BotActions ==
    IF NoActionNeeded(BotBefore) THEN <<>> ELSE <<"rollout restart", "rollout status">>

\* C13: the adapter's self_heal_orders, given the evidence and the kubectl
\* outcomes of its run, performs the restart and rollout-status actions
\* k8s_self_heal_orders performs on them and returns the same status,
\* orders_errors_before and orders_errors_after; it restarts whenever the
\* backend reports a non-zero orders count.
C13_AdapterEquivalent ==
    (op = AdapterOp /\ HealReturned) =>
        /\ Cmds(KubectlEvents) = BotActions
        /\ response.status = BotStatus
        /\ "orders_errors_before" \in DOMAIN response
        /\ response.orders_errors_before = BotBefore
        /\ response.orders_errors_after = BotAfter

------------------------------------------------------------------------------
(* Partial failure of the error summary *)

\* a request that is served by error_summary alone: GET /logs/error_summary and
\* rule 1 of the router
IsSummaryRequest ==
    op = "error_summary" \/ (op = "ai_chat" /\ intent = "error_summary")

\* C14: error_summary does not abort when the query of one service fails, by
\* the backend call raising or by a terminal status Failed: the request ends
\* with a summary that has an entry for every known service.
C14_SummaryNotAborted ==
    (IsSummaryRequest /\ pc = "done") =>
        /\ outcome = "returned"
        /\ \E r \in ReturnedSummaries :
               DOMAIN r.summary = {Services[i] : i \in 1..Len(Services)}

------------------------------------------------------------------------------
(* Fall-through of rule 2 *)

\* q mentions an error, is not a summary request and names no service, the
\* names being those of section 4.4
ErrorWithoutSpecService(q) ==
    /\ Contains(q, "error")
    /\ ~SpecPredicate(1, q)
    /\ ~SpecKnownService(q)

\* the same, the phrase "user service" counted as a name
ErrorWithoutService(q) ==
    /\ ErrorWithoutSpecService(q)
    /\ ~Contains(q, "user service")

\* C15 as stated: a text with "error" that does not satisfy rule 1 and has
\* none of orders, catalog, users is not answered by service_errors but by the
\* first of rules 3-9 it satisfies.
C15_NoNameFallsThrough ==
    [][(ChatArrived /\ ErrorWithoutSpecService(Normalize(question))) =>
          /\ intent' # "service_errors"
          /\ intent' = RuleIntents[SpecLowestFrom(3, Normalize(question))]]_vars

\* C15 amended: the same for a text that has none of orders, catalog, users
\* and not the phrase "user service" either.
C15_NoServiceFallsThrough ==
    [][(ChatArrived /\ ErrorWithoutService(Normalize(question))) =>
          /\ intent' # "service_errors"
          /\ intent' = RuleIntents[AmendedLowestFrom(3, Normalize(question))]]_vars

\* "error restart service" names no service and is answered by rule 5
C15_Witness ==
    /\ Dispatched
    /\ pc = "done"
    /\ chat.q = "error restart service"
    /\ ErrorWithoutService(chat.q)
    /\ intent = "restart_deployment"
    /\ Cmds(events) = <<"rollout restart">>

------------------------------------------------------------------------------
(* Self-heal workflow: failures of kubectl, the steps of the record *)

\* the two shapes of the dict _run_kubectl returns
KubectlResultKeys == {{"cmd", "returncode", "stdout", "stderr"}, {"cmd", "error"}}

HealRecordKeys ==
    {"status", "deployment", "namespace", "orders_errors_before", "orders_errors_after",
     "steps"}

StepKeys(steps) == [i \in 1..Len(steps) |-> steps[i].key]

\* C16: neither a non-zero exit code nor a kubectl that cannot be invoked, at
\* the restart or at the rollout status, ends k8s_self_heal_orders: no
\* exception leaves it, each outcome is recorded as {cmd, returncode, stdout,
\* stderr} or {cmd, error}, the restart is followed by the rollout status and
\* the rollout status by the post-check, and the record returned has status,
\* deployment, namespace, orders_errors_before, orders_errors_after and steps.
C16_KubectlFailureNoAbort ==
    heal.phase # "none" =>
        /\ outcome # "raised"
        /\ \A i \in 1..Len(heal.steps) :
               heal.steps[i].key \in {"restart", "rollout_status"} =>
                   DOMAIN heal.steps[i].val \in KubectlResultKeys
        /\ heal.phase = "restart" => pc = "kubectl" /\ pending.verb = "rollout restart"
        /\ heal.phase = "rollout" =>
               /\ pc = "kubectl" /\ pending.verb = "rollout status"
               /\ StepKeys(heal.steps)[2] = "restart"
        /\ heal.phase = "post" =>
               /\ pc \in {"start_query", "poll"}
               /\ Len(ErrorSummaryCalls) = 2
               /\ StepKeys(heal.steps)[3] = "rollout_status"
        /\ (heal.phase = "end" /\ Len(KubectlEvents) > 0) =>
               /\ HealReturned
               /\ Cmds(KubectlEvents) = <<"rollout restart", "rollout status">>
               /\ DOMAIN HealResult = HealRecordKeys

\* a restart that exits with 1, a rollout status that cannot be invoked, and
\* the complete record returned all the same
C16_Witness ==
    /\ HealReturned
    /\ Len(heal.steps) = 4
    /\ DOMAIN heal.steps[2].val = {"cmd", "returncode", "stdout", "stderr"}
    /\ heal.steps[2].val.returncode = 1
    /\ DOMAIN heal.steps[3].val = {"cmd", "error"}
    /\ DOMAIN HealResult = HealRecordKeys

\* C17: the steps of the returned record have one entry per executed phase,
\* in execution order: pre-check (result or error), restart, rollout_status,
\* post-check (result or error) on the full path, the pre-check result alone
\* on the no-action path; a check never leaves both its result and its error.
C17_StepsInOrder ==
    /\ heal.phase \notin {"none", "end"} =>
           Len(heal.steps) = (CASE heal.phase = "pre" -> 0
                                [] heal.phase = "restart" -> 1
                                [] heal.phase = "rollout" -> 2
                                [] heal.phase = "post" -> 3)
    /\ HealReturned =>
           LET keys == StepKeys(HealResult.steps) IN
           /\ Len(keys) = Len(events)
           /\ \A i, j \in 1..Len(keys) : keys[i] = keys[j] => i = j
           /\ IF HealResult.status = "no_action_needed"
              THEN keys = <<"pre_error_summary">>
              ELSE /\ Len(keys) = 4
                   /\ keys[1] \in {"pre_error_summary", "pre_error_summary_error"}
                   /\ keys[2] = "restart"
                   /\ keys[3] = "rollout_status"
                   /\ keys[4] \in {"post_error_summary", "post_error_summary_error"}
                   /\ Cmds(events) = FullPathCmds

\* both checks failed: four entries, the two checks by their error
C17_Witness ==
    /\ HealReturned
    /\ StepKeys(HealResult.steps) =
           <<"pre_error_summary_error", "restart", "rollout_status",
             "post_error_summary_error">>

------------------------------------------------------------------------------
(* The poll loop *)

QueryReturned == op = QueryOp /\ pc = "done" /\ outcome = "returned"

\* C18: _run_logs_query returns at the first poll the backend answers with
\* Complete, Failed or Cancelled, and returns that answer; an answer Running
\* is never returned but polled again, any number of times; when the backend
\* ends the query at last, the call returns or raises.
C18_ReturnsAtTerminalOnly ==
    /\ [](QueryReturned => response.status \in TerminalStatuses)
    /\ [][(op = QueryOp /\ pc = "poll") =>
            /\ TerminalAnswer => (QueryReturned' /\ response' \in QueryResponses(qry.kind))
            /\ RunningAnswer => (pc' = "poll" /\ outcome' = "none" /\ qry'.waited)]_vars
    /\ []((op = QueryOp /\ pc = "poll") => ENABLED RunningAnswer)
    /\ (op = QueryOp /\ pc = "poll") ~> (pc = "done")

\* a query answered Running first and Failed afterwards
C18_Witness ==
    /\ QueryReturned
    /\ qry.waited
    /\ response.status = "Failed"

------------------------------------------------------------------------------
(* Overlapping invocations *)

\* the invocation of worker w is between the start of its pre-check and its return
InFlight(w) == heal[w].phase \in {"pre", "restart", "rollout", "post"}

\* worker w has issued its restart and has not returned yet
Restarting(w) == heal[w].phase \in {"rollout", "post"}

\* C19: two overlapping invocations of k8s_self_heal_orders for the same
\* deployment and namespace do not interleave: while one has issued its
\* restart and has not returned, the other is not between its pre-check and
\* its return, so there are never two overlapping restarts.
C19_NoInterleaving ==
    \A a, b \in Workers : (a # b /\ Restarting(a)) => ~InFlight(b)

------------------------------------------------------------------------------
(* Self-heal through the router *)

\* C20: a request the router answers with the self-heal intent runs the
\* workflow on orders-deployment in cloudshop with a lookback of 30 minutes
\* and a timeout of 120 seconds, whatever number or service name the text
\* has; the lookback taken from the text is not passed on.
C20_SelfHealFixedDefaults ==
    (Dispatched /\ intent = "self_heal_orders") =>
        /\ heal.deployment = "orders-deployment"
        /\ heal.namespace = "cloudshop"
        /\ heal.minutes = 30
        /\ heal.timeout = 120
        /\ qry.kind # "" => qry.minutes = 30
        /\ \A i \in 1..Len(events) :
               /\ events[i].cmd = "error_summary" => events[i].arg = 30
               /\ events[i].kind = "kubectl" =>
                      /\ events[i].target = "orders-deployment"
                      /\ events[i].namespace = "cloudshop"
               /\ events[i].cmd = "rollout status" => events[i].arg = 120
        /\ \A i \in 1..Len(heal.steps) :
               heal.steps[i].key \in {"pre_error_summary", "post_error_summary"} =>
                   heal.steps[i].val.lookback_minutes = 30
        /\ HealReturned =>
               /\ HealResult.deployment = "orders-deployment"
               /\ HealResult.namespace = "cloudshop"

\* "restart orders 45": the text asks for 45 minutes, the workflow looks back 30
C20_Witness ==
    /\ Dispatched
    /\ chat.q = "restart orders 45"
    /\ chat.minutes = 45
    /\ intent = "self_heal_orders"
    /\ HealReturned
    /\ Cmds(events) = FullPathCmds
    /\ events[1].arg = 30
    /\ events[4].arg = 30

------------------------------------------------------------------------------
(* Commands that change the cluster *)

ChangingVerbs == {"rollout restart", "scale"}

ChangingIntents == {"restart_deployment", "scale_deployment", "self_heal_orders"}

ReadOnlyIntents == {"error_summary", "service_errors", "top_endpoints", "pod_status"}

\* the request has run, or is about to run, a restart or a scale
ChangesCluster ==
    \/ \E i \in 1..Len(events) : events[i].cmd \in ChangingVerbs
    \/ (pc = "kubectl" /\ pending.verb \in ChangingVerbs)

\* one operation per request, and a restart or scale under the three
\* intents only
OneOperation ==
    Dispatched =>
        /\ intent # "self_heal_orders" => Len(events) <= 1
        /\ intent = "self_heal_orders" =>
               /\ Len(events) <= Len(FullPathCmds)
               /\ Cmds(events) = SubSeq(FullPathCmds, 1, Len(events))
        /\ ChangesCluster => intent \in ChangingIntents
        /\ intent \in ReadOnlyIntents => ~ChangesCluster
        /\ outcome = "returned" => response.intent = intent

\* C21: one ai_chat request dispatches to one operation at most; it runs a
\* rollout restart or a scale only when the intent it returns is
\* restart_deployment, scale_deployment or self_heal_orders; a text that
\* satisfies one of predicates 1-4 gets one of the four read-only intents and
\* causes no restart and no scale, whatever else it contains.
C21_ReadOnlyRulesChangeNothing ==
    /\ [][(ChatArrived /\ SpecLowestFrom(1, Normalize(question)) <= 4) =>
            /\ intent' \in ReadOnlyIntents
            /\ pending' = NoCmd \/ pending'.verb \notin ChangingVerbs]_vars
    /\ []OneOperation

\* "restart orders error" satisfies predicates 2 and 8: the errors of orders
\* are read and nothing is restarted
C21_Witness ==
    /\ Dispatched
    /\ pc = "done"
    /\ chat.q = "restart orders error"
    /\ SpecPredicate(2, chat.q) /\ SpecPredicate(8, chat.q)
    /\ intent = "service_errors"
    /\ outcome = "returned"
    /\ Cmds(events) = <<"service_errors">>
    /\ ~ChangesCluster

====
